---- MODULE Spec2Model ----
(***************************************************************************)
(* Model of tasksB.py: the path-confinement guard ensure_data_path and the *)
(* task handlers B3..B10 that compose with it.                             *)
(*                                                                         *)
(* A file name is a sequence of characters (one-character strings), a path *)
(* is a sequence of names below "/", and str(path) is the character        *)
(* sequence Python's startswith() compares.                                *)
(***************************************************************************)
EXTENDS Integers, Sequences, FiniteSets, TLC

VARIABLES
    links,       \* filesystem: the symbolic links, a set of <<location, target>>
    files,       \* filesystem: the paths that exist (Path.exists())
    loopRaises,  \* interpreter: Path.resolve() raises RuntimeError on a symlink loop
    cand,        \* the candidate string whose guard calls are observed
    result,      \* the outcome of a direct guard call on cand
    inv,         \* the last handler invocation: inputs, outcome, side effects
    hist,        \* the guard's most recent call on cand in an earlier invocation
    csv,         \* the lines of the CSV file /data/t.c, each a sequence of cells
    pc,          \* per concurrent B4 invocation, its position in B4's body
    sawExists,   \* per concurrent B4 invocation, what repo_path.exists() returned
    overlaps     \* the phases of B4 that two invocations were in at the same time

vars == <<links, files, loopRaises, cand, result, inv, hist, csv,
          pc, sawExists, overlaps>>

(***************************************************************************)
(* Characters and names                                                    *)
(***************************************************************************)
NUL == "NUL"

Empty == <<>>
Dot == <<".">>
DotDot == <<".", ".">>

data == <<"d", "a", "t", "a">>
data2 == <<"d", "a", "t", "a", "2">>
etc == <<"e", "t", "c">>
repo == <<"r", "e", "p", "o">>
nA == <<"a">>
nLnk == <<"l">>
nLoop == <<"o">>
nNul == <<"x", NUL, "y">>
reportJson == <<"r", ".", "j">>
tCsv == <<"t", ".", "c">>

\* Python's None, as a DictReader value and as the result of dict.get
None == "<None>"
\* DictReader's restkey, the key of the cells beyond the header
RestKey == "<restkey>"

\* DATA_DIR = Path("/data")
DATA_DIR == <<data>>

(***************************************************************************)
(* pathlib and posixpath                                                   *)
(***************************************************************************)
Front(s) == SubSeq(s, 1, Len(s) - 1)
Last(s) == s[Len(s)]

RECURSIVE DropSkipped(_)
\* Path(filepath): pathlib drops empty and "." segments when it parses
DropSkipped(segs) ==
    IF segs = <<>> THEN <<>>
    ELSE IF Head(segs) = Empty \/ Head(segs) = Dot THEN DropSkipped(Tail(segs))
    ELSE <<Head(segs)>> \o DropSkipped(Tail(segs))

PathOf(filepath) == [abs |-> filepath.abs, parts |-> DropSkipped(filepath.segs)]

\* DATA_DIR / Path(filepath): an absolute right operand replaces the left one
Join(base, p) == IF p.abs THEN p.parts ELSE base \o p.parts

RECURSIVE Str(_)
\* str(path) of an absolute path
Str(parts) ==
    IF parts = <<>> THEN <<>>
    ELSE <<"/">> \o Head(parts) \o Str(Tail(parts))

PathStr(parts) == IF parts = <<>> THEN <<"/">> ELSE Str(parts)

\* str.startswith
StartsWith(s, prefix) ==
    /\ Len(s) >= Len(prefix)
    /\ SubSeq(s, 1, Len(prefix)) = prefix

HasNul(name) == \E i \in 1..Len(name) : name[i] = NUL

IsLink(lk, p) == \E l \in lk : l[1] = p
ReadLink(lk, p) == (CHOOSE l \in lk : l[1] = p)[2]

RECURSIVE Normpath(_, _)
\* posixpath.normpath of an absolute path, applied by realpath() to what it returns:
\* "" and "." are dropped and ".." removes the segment before it, without the filesystem
Normpath(done, rest) ==
    IF rest = <<>> THEN done
    ELSE LET name == Head(rest)
         IN  IF name = Empty \/ name = Dot THEN Normpath(done, Tail(rest))
             ELSE IF name = DotDot
                  THEN Normpath(IF done = <<>> THEN <<>> ELSE Front(done), Tail(rest))
             ELSE Normpath(Append(done, name), Tail(rest))

RECURSIVE JoinRealPath(_, _, _, _, _)
\* posixpath.realpath(strict=False): the segments of rest are resolved one by one
\* below path; seen holds the links whose targets are being resolved. On a symlink
\* loop the interpreters up to 3.12 return at once what is left (raises), the later
\* ones keep the link as a plain segment and go on.
JoinRealPath(path, rest, seen, lk, raises) ==
    IF rest = <<>> THEN [st |-> "ok", path |-> path]
    ELSE LET name == Head(rest)
             tl == Tail(rest)
         IN  IF name = Empty \/ name = Dot THEN JoinRealPath(path, tl, seen, lk, raises)
             ELSE IF name = DotDot
                  THEN JoinRealPath(IF path = <<>> THEN <<>> ELSE Front(path),
                                    tl, seen, lk, raises)
             ELSE LET newpath == Append(path, name)
                  IN  IF HasNul(name) THEN [st |-> "nul", path |-> newpath \o tl]
                      ELSE IF ~IsLink(lk, newpath)
                           THEN JoinRealPath(newpath, tl, seen, lk, raises)
                      ELSE IF newpath \in seen
                           THEN IF raises THEN [st |-> "loop", path |-> newpath \o tl]
                                ELSE JoinRealPath(newpath, tl, seen, lk, raises)
                      ELSE LET r == JoinRealPath(<<>>, ReadLink(lk, newpath),
                                                 seen \cup {newpath}, lk, raises)
                           IN  IF r.st # "ok" THEN [st |-> r.st, path |-> r.path \o tl]
                               ELSE JoinRealPath(r.path, tl, seen, lk, raises)

\* Path.resolve(strict=False): realpath(), and up to 3.12 a stat() of a path that
\* realpath() left unresolved, which raises ValueError on an embedded NUL and whose
\* ELOOP becomes RuntimeError
Resolve(parts, lk, raises) ==
    LET r == JoinRealPath(<<>>, parts, {}, lk, raises)
        p == Normpath(<<>>, r.path)
    IN  IF r.st = "ok" THEN [kind |-> "path", path |-> r.path]
        ELSE IF r.st = "nul" THEN [kind |-> "ValueError", path |-> <<>>]
        ELSE IF \E i \in 1..Len(p) : HasNul(p[i])
             THEN [kind |-> "ValueError", path |-> <<>>]
        ELSE IF JoinRealPath(<<>>, p, {}, lk, raises).st = "loop"
             THEN [kind |-> "RuntimeError", path |-> <<>>]
        ELSE [kind |-> "path", path |-> p]

\* Forbidden with the separator appended to the root before the comparison
ForbiddenStrict(path) == ~StartsWith(PathStr(path), PathStr(DATA_DIR) \o <<"/">>)

\* the canonical path lies outside the root by the test ensure_data_path applies
Forbidden(path) == ~StartsWith(PathStr(path), PathStr(DATA_DIR))

\* ensure_data_path with resolve(strict=True): a path that does not exist raises
ensure_data_path_strict(filepath, fs) ==
    LET r == Resolve(Join(DATA_DIR, PathOf(filepath)), fs.links, loopRaises)
    IN  IF r.kind # "path" THEN r
        ELSE IF r.path \notin fs.files THEN [kind |-> "FileNotFoundError", path |-> <<>>]
        ELSE IF Forbidden(r.path) THEN [kind |-> "AccessDenied", path |-> <<>>]
        ELSE r

\* fs is the filesystem at the time of the call, which resolve() reads
ensure_data_path(filepath, fs) ==
    LET r == Resolve(Join(DATA_DIR, PathOf(filepath)), fs.links, loopRaises)
    IN  IF r.kind # "path" THEN r
        ELSE IF Forbidden(r.path) THEN [kind |-> "AccessDenied", path |-> <<>>]
        ELSE r

(***************************************************************************)
(* Inputs and filesystem configurations                                    *)
(***************************************************************************)
MaxSegs == 3

\* the segments a candidate string is made of
RawSegs == {Empty, Dot, DotDot, data, data2, etc, repo, nA, reportJson,
            nLnk, nLoop, nNul}

\* the sequences over S of length up to n
SeqsUpTo(S, n) == UNION {[1..k -> S] : k \in 0..n}

\* a candidate string: a leading "/" or none, then segments separated by "/"
Candidates == [abs : BOOLEAN, segs : SeqsUpTo(RawSegs, MaxSegs)]

\* the symbolic links a checked-out repository can hold in /data/repo
EscapeLink == <<(<<data, repo, nLnk>>), (<<etc>>)>>
InnerLink == <<(<<data, repo, nLnk>>), (<<data, nA>>)>>
LoopLink == <<(<<data, repo, nLoop>>), (<<data, repo, nLoop>>)>>
LinkConfigs == {{}, {EscapeLink}, {InnerLink}, {LoopLink}, {EscapeLink, LoopLink}}

\* the filesystem as the handlers see it
FS == [links |-> links, files |-> files, csv |-> csv]

NotCalled == [kind |-> "none", path |-> <<>>]
NoCall == [cand |-> [abs |-> FALSE, segs |-> <<>>], out |-> NotCalled, lk |-> {}]
NoInv == [h |-> "none", outcome |-> "none", effects |-> <<>>, guards |-> <<>>,
          results |-> <<>>, column |-> "", value |-> ""]
NoCsv == <<>>

(***************************************************************************)
(* SpecGuard: direct calls of the guard on every candidate                 *)
(***************************************************************************)
InitGuard ==
    /\ links \in LinkConfigs
    /\ loopRaises \in BOOLEAN
    /\ cand \in Candidates
    /\ result = NotCalled
    /\ files = {}
    /\ inv = NoInv
    /\ hist = NoCall
    /\ csv = NoCsv
    /\ pc = <<>>
    /\ sawExists = <<>>
    /\ overlaps = {}

Guard ==
    /\ result = NotCalled
    /\ result' = ensure_data_path(cand, FS)
    /\ UNCHANGED <<links, files, loopRaises, cand, inv, hist, csv,
                   pc, sawExists, overlaps>>

NextGuard == Guard

SpecGuard == InitGuard /\ [][NextGuard]_vars

\* the canonical path is the root or a descendant of it, by path segments
IsUnder(path) == StartsWith(path, DATA_DIR)

\* what the candidate resolves to on the current filesystem
Canon(filepath) == Resolve(Join(DATA_DIR, PathOf(filepath)), links, loopRaises)

Called == result # NotCalled

(***************************************************************************)
(* Claims about the guard, under SpecGuard                                 *)
(***************************************************************************)
Rel(segs) == [abs |-> FALSE, segs |-> segs]
Abs(segs) == [abs |-> TRUE, segs |-> segs]

\* the canonical path has the text "/data" in front without /data as an ancestor
TextualSibling(path) ==
    /\ StartsWith(PathStr(path), PathStr(DATA_DIR))
    /\ ~IsUnder(path)

RECURSIVE ClimbsAbove(_, _)
\* the ".." segments of a relative candidate lead above the root at some point
ClimbsAbove(depth, segs) ==
    IF segs = <<>> THEN FALSE
    ELSE IF Head(segs) = Empty \/ Head(segs) = Dot THEN ClimbsAbove(depth, Tail(segs))
    ELSE IF Head(segs) = DotDot
         THEN depth = 0 \/ ClimbsAbove(depth - 1, Tail(segs))
    ELSE ClimbsAbove(depth + 1, Tail(segs))

\* C1: for a candidate that canonicalizes, a guard call either raises AccessDenied
\* or returns a canonical path that is the root or a descendant of the root by
\* path segments; it never returns a path outside the root.
C1_NeverOutsideRoot ==
    (Called /\ Canon(cand).kind = "path") =>
        \/ result.kind = "AccessDenied"
        \/ result.kind = "path" /\ IsUnder(result.path)

\* C2: a candidate that resolves to a sibling of the root whose name textually
\* extends the root's name (/data2/x) is rejected with AccessDenied.
C2_SiblingRejected ==
    (Called /\ Canon(cand).kind = "path" /\ TextualSibling(Canon(cand).path))
        => result.kind = "AccessDenied"

\* C3: a relative candidate whose ".." segments climb above the root and end
\* outside it, and an absolute candidate outside the root that does not share the
\* root's name prefix, are rejected with AccessDenied and no path is returned.
C3_EscapeRejected ==
    LET c == Canon(cand)
    IN  (/\ Called
         /\ c.kind = "path"
         /\ ~IsUnder(c.path)
         /\ \/ ~cand.abs /\ ClimbsAbove(0, cand.segs)
            \/ cand.abs /\ ~StartsWith(PathStr(c.path), PathStr(DATA_DIR)))
        => result.kind = "AccessDenied"

\* C6: a candidate whose canonical resolution is the root or a descendant of it is
\* not rejected: the guard returns exactly that canonical absolute path, with every
\* "." and ".." resolved ("report.json" yields /data/report.json).
C6_ContainedReturned ==
    Called =>
        /\ (Canon(cand).kind = "path" /\ IsUnder(Canon(cand).path))
              => /\ result.kind = "path"
                 /\ result.path = Canon(cand).path
                 /\ \A i \in 1..Len(result.path) :
                        result.path[i] \notin {Empty, Dot, DotDot}
        /\ cand = Rel(<<>>) => result = [kind |-> "path", path |-> <<data>>]
        /\ cand = Rel(<<reportJson>>)
              => result = [kind |-> "path", path |-> <<data, reportJson>>]
        /\ cand = Rel(<<nA, Dot, reportJson>>)
              => result = [kind |-> "path", path |-> <<data, nA, reportJson>>]
        /\ cand = Rel(<<nA, DotDot, reportJson>>)
              => result = [kind |-> "path", path |-> <<data, reportJson>>]
        /\ cand = Abs(<<data, nA, reportJson>>)
              => result = [kind |-> "path", path |-> <<data, nA, reportJson>>]

C6_Witness ==
    /\ cand = Rel(<<nA, DotDot, reportJson>>)
    /\ result = [kind |-> "path", path |-> <<data, reportJson>>]

\* C7: when canonicalization of the candidate fails (embedded NUL, symlink loop),
\* the outcome is the AccessDenied rejection, never a path or another error.
C7_FailureIsDenial ==
    (Called /\ Canon(cand).kind \in {"ValueError", "RuntimeError"})
        => result.kind = "AccessDenied"

(***************************************************************************)
(* The task handlers. Each operator runs one whole invocation on the       *)
(* filesystem fs and yields its outcome, the side effects it performed in  *)
(* order (each with the paths it handed to the filesystem or to a          *)
(* collaborator), the guard calls it made and the filesystem it leaves.    *)
(* env is what the collaborators of the invocation do.                     *)
(***************************************************************************)
Eff(op, paths) == [op |-> op, paths |-> paths]

\* one call of the guard: the candidate, the outcome, the links it resolved against
G(c, fs) == [cand |-> c, out |-> ensure_data_path(c, fs), lk |-> fs.links]

Done(h, outcome, effects, guards, fs) ==
    [h |-> h, outcome |-> outcome, effects |-> effects, guards |-> guards,
     fs |-> fs, results |-> <<>>, column |-> "", value |-> ""]

CsvPath == <<data, tCsv>>

\* the paths whose existence a handler asks for (Path.exists() in B4 and B10)
Tracked == {<<data, repo>>, <<data, repo, nLnk>>, CsvPath}

\* open(path, "w") and a write: the file exists afterwards, with no CSV lines in
\* it; files keeps the existence of the tracked paths only
Written(fs, path) ==
    [fs EXCEPT !.files = @ \cup ({path} \cap Tracked),
               !.csv = IF path = CsvPath THEN NoCsv ELSE @]

\* the directories of the model: open() of one fails
IsDir(path) == path \in {DATA_DIR, <<data, repo>>}

\* requests.get, raise_for_status, then the guard, then the write (B3 and B6)
FetchAndSave(h, env, filename, fs) ==
    LET g == G(filename, fs)
        get == <<Eff("requests.get", {})>>
    IN  IF env = "upstream" THEN Done(h, "HTTPError", get, <<>>, fs)
        ELSE IF g.out.kind # "path" THEN Done(h, g.out.kind, get, <<g>>, fs)
        ELSE IF env = "oserror" \/ IsDir(g.out.path)
             THEN Done(h, "OSError", get \o <<Eff("open_w", {g.out.path})>>, <<g>>, fs)
        ELSE Done(h, "ok", get \o <<Eff("open_w", {g.out.path})>>, <<g>>,
                  Written(fs, g.out.path))

B3Run(env, filename, fs) == FetchAndSave("B3", env, filename, fs)

B6Run(env, output_file, fs) == FetchAndSave("B6", env, output_file, fs)

\* f"repo/{file_to_change}": text concatenation, so a leading "/" of file_to_change
\* becomes an empty segment of a relative candidate
RepoFile(file_to_change) ==
    Rel(<<repo>> \o (IF file_to_change.abs THEN <<Empty>> ELSE <<>>) \o file_to_change.segs)

\* the working tree after a clone or a pull that checked out content
CheckedOut(fs, content) ==
    [fs EXCEPT !.links = content.links,
               !.files = @ \cup {<<data, repo>>} \cup content.files]

B4Run(env, content, file_to_change, fs) ==
    LET g1 == G(Rel(<<repo>>), fs)
        repo_path == g1.out.path
        exists == repo_path \in fs.files
        sync == IF exists THEN <<Eff("Repo", {repo_path}), Eff("pull", {repo_path})>>
                ELSE <<Eff("clone_from", {repo_path})>>
        fs1 == CheckedOut(fs, content)
        g2 == G(RepoFile(file_to_change), fs1)
        file_path == g2.out.path
        wr == sync \o <<Eff("open_w", {file_path})>>
        fs2 == Written(fs1, file_path)
        ci == wr \o <<Eff("Repo", {repo_path}), Eff("git.add", {file_path}),
                      Eff("commit", {repo_path})>>
    IN  IF g1.out.kind # "path" THEN Done("B4", g1.out.kind, <<>>, <<g1>>, fs)
        ELSE IF env = "git" THEN Done("B4", "GitCommandError", sync, <<g1>>, fs)
        ELSE IF g2.out.kind # "path" THEN Done("B4", g2.out.kind, sync, <<g1, g2>>, fs1)
        ELSE IF env = "oserror" \/ IsDir(file_path)
             THEN Done("B4", "OSError", wr, <<g1, g2>>, fs1)
        ELSE IF env = "push"
             THEN Done("B4", "HTTP500", ci \o <<Eff("push", {repo_path})>>, <<g1, g2>>, fs2)
        ELSE Done("B4", "ok", ci \o <<Eff("push", {repo_path})>>, <<g1, g2>>, fs2)

\* two guards, then a collaborator reads the first path and the second is written
\* (B5: connect, execute, dump; B7: Image.open, save; B9: open, markdown, write)
ReadThenWrite(h, reader, env, src, dst, fs) ==
    LET g1 == G(src, fs)
        g2 == G(dst, fs)
        rd == <<Eff(reader, {g1.out.path})>>
        wr == rd \o <<Eff("open_w", {g2.out.path})>>
    IN  IF g1.out.kind # "path" THEN Done(h, g1.out.kind, <<>>, <<g1>>, fs)
        ELSE IF g2.out.kind # "path" THEN Done(h, g2.out.kind, <<>>, <<g1, g2>>, fs)
        ELSE IF env = "upstream" THEN Done(h, "UpstreamFailure", rd, <<g1, g2>>, fs)
        ELSE IF env = "oserror" \/ IsDir(g2.out.path)
             THEN Done(h, "OSError", wr, <<g1, g2>>, fs)
        ELSE Done(h, "ok", wr, <<g1, g2>>, Written(fs, g2.out.path))

B5Run(env, db_path, output_file, use_duckdb, fs) ==
    ReadThenWrite("B5", IF use_duckdb THEN "duckdb.connect" ELSE "sqlite3.connect",
                  env, db_path, output_file, fs)

B7Run(env, image_path, output_path, fs) ==
    ReadThenWrite("B7", "Image.open", env, image_path, output_path, fs)

B9Run(env, markdown_file, output_file, fs) ==
    ReadThenWrite("B9", "open_r", env, markdown_file, output_file, fs)

\* the index of the last "." of a name, 0 if there is none
LastDot(name) ==
    IF \E i \in 1..Len(name) : name[i] = "."
    THEN CHOOSE i \in 1..Len(name) :
            /\ name[i] = "."
            /\ \A j \in (i + 1)..Len(name) : name[j] # "."
    ELSE 0

\* PurePath.with_suffix on a path with a name: the suffix starts at the last "."
\* unless that is the first or the last character of the name
WithSuffix(path, suffix) ==
    LET name == Last(path)
        i == LastDot(name)
        stem == IF 1 < i /\ i < Len(name) THEN SubSeq(name, 1, i - 1) ELSE name
    IN  Append(Front(path), stem \o suffix)

WavSuffix == <<".", "w", "a", "v">>

B8Run(env, audio_path, output_file, fs) ==
    LET g1 == G(audio_path, fs)
        g2 == G(output_file, fs)
        dec == <<Eff("from_mp3", {g1.out.path})>>
        wav_path == WithSuffix(g1.out.path, WavSuffix)
        rec == dec \o <<Eff("export", {wav_path}), Eff("AudioFile", {wav_path}),
                        Eff("recognize_google", {})>>
        fs1 == Written(fs, wav_path)
        wr == rec \o <<Eff("open_w", {g2.out.path})>>
    IN  IF g1.out.kind # "path" THEN Done("B8", g1.out.kind, <<>>, <<g1>>, fs)
        ELSE IF g2.out.kind # "path" THEN Done("B8", g2.out.kind, <<>>, <<g1, g2>>, fs)
        ELSE IF env = "decode" THEN Done("B8", "UpstreamFailure", dec, <<g1, g2>>, fs)
        ELSE IF env = "speech" THEN Done("B8", "UpstreamFailure", rec, <<g1, g2>>, fs1)
        ELSE IF env = "oserror" \/ IsDir(g2.out.path)
             THEN Done("B8", "OSError", wr, <<g1, g2>>, fs1)
        ELSE Done("B8", "ok", wr, <<g1, g2>>, Written(fs1, g2.out.path))

(***************************************************************************)
(* B10 and csv.DictReader                                                  *)
(***************************************************************************)
\* the index of the last field of the header with this name
LastField(header, k) ==
    CHOOSE j \in 1..Len(header) :
        /\ header[j] = k
        /\ \A m \in (j + 1)..Len(header) : header[m] # k

\* DictReader.__next__: dict(zip(fieldnames, row)), the cells beyond the header
\* under restkey, the fields beyond the row set to restval (None)
RowDict(header, row) ==
    [k \in {header[j] : j \in 1..Len(header)}
           \cup (IF Len(row) > Len(header) THEN {RestKey} ELSE {}) |->
        IF k = RestKey /\ Len(row) > Len(header)
        THEN SubSeq(row, Len(header) + 1, Len(row))
        ELSE IF LastField(header, k) > Len(row) THEN None
        ELSE row[LastField(header, k)]]

IsRow(row) == row # <<>>

\* csv.DictReader over the lines of a file: the first line is the header, blank
\* lines after it are skipped
DictReader(lines) ==
    IF lines = <<>> THEN <<>>
    ELSE LET rows == SelectSeq(Tail(lines), IsRow)
         IN  [i \in 1..Len(rows) |-> RowDict(Head(lines), rows[i])]

\* row.get(column)
Get(row, column) == IF column \in DOMAIN row THEN row[column] ELSE None

RECURSIVE FilterRowsReversed(_, _, _)
\* FilterRows that puts each match in front of the matches found before
FilterRowsReversed(reader, column, value) ==
    IF reader = <<>> THEN <<>>
    ELSE FilterRowsReversed(Tail(reader), column, value)
            \o (IF Get(Head(reader), column) = value THEN <<Head(reader)>> ELSE <<>>)

RECURSIVE FilterRows(_, _, _)
\* [row for row in reader if row.get(column) == value]
FilterRows(reader, column, value) ==
    IF reader = <<>> THEN <<>>
    ELSE (IF Get(Head(reader), column) = value THEN <<Head(reader)>> ELSE <<>>)
            \o FilterRows(Tail(reader), column, value)

\* the lines open(path) reads: the model keeps the content of /data/t.c only, and
\* what the handlers write holds no CSV lines
Content(fs, path) == IF path = CsvPath THEN fs.csv ELSE NoCsv

B10Run(env, csv_file, column, value, fs) ==
    LET g == G(csv_file, fs)
        rd == <<Eff("open_r", {g.out.path})>>
    IN  IF g.out.kind # "path" THEN Done("B10", g.out.kind, <<>>, <<g>>, fs)
        ELSE IF g.out.path \notin fs.files THEN Done("B10", "NotFound", <<>>, <<g>>, fs)
        ELSE IF env = "oserror" \/ IsDir(g.out.path)
             THEN Done("B10", "OSError", rd, <<g>>, fs)
        ELSE [Done("B10", "ok", rd, <<g>>, fs) EXCEPT
                 !.results = FilterRows(DictReader(Content(fs, g.out.path)), column, value),
                 !.column = column, !.value = value]

(***************************************************************************)
(* Spec: invocations of the handlers, one after the other                  *)
(***************************************************************************)
\* the path arguments the handlers are called with
FileArgs == {Rel(<<reportJson>>), Rel(<<DotDot, etc>>), Rel(<<repo, nLnk>>)}
CsvArgs == {Rel(<<tCsv>>), Rel(<<repo, nLnk>>), Rel(<<DotDot, etc>>)}
ChangeArgs == {Rel(<<nLnk>>), Rel(<<reportJson>>), Abs(<<etc>>)}
Columns == {"status", "id", "zz"}
Values == {"ok", "no"}

\* what a remote repository checks out into /data/repo: nothing the model tracks,
\* a regular file l, or a symbolic link l to /etc
RepoContents == {[links |-> {}, files |-> {}],
                 [links |-> {}, files |-> {<<data, repo, nLnk>>}],
                 [links |-> {EscapeLink}, files |-> {}]}

\* scenario 4: three rows, "ok" in column status on two of them
SampleCsv == <<(<<"id", "status">>), (<<"no", "ok">>), (<<"ok", "no">>), (<<"ok", "ok">>)>>

\* the last call among gs on the candidate c, or h if there is none
Remember(h, gs, c) ==
    IF \E i \in 1..Len(gs) : gs[i].cand = c
    THEN gs[CHOOSE i \in 1..Len(gs) :
                /\ gs[i].cand = c
                /\ \A j \in (i + 1)..Len(gs) : gs[j].cand # c]
    ELSE h

\* the repository is not cloned yet, or an earlier run has cloned it; no symbolic
\* link of RepoContents loops, so one interpreter behaviour stands for both
Init ==
    /\ \/ links = {} /\ files = {DATA_DIR, CsvPath}
       \/ \E c \in RepoContents :
            /\ links = c.links
            /\ files = {DATA_DIR, CsvPath, <<data, repo>>} \cup c.files
    /\ loopRaises = TRUE
    /\ csv = SampleCsv
    /\ inv = NoInv
    /\ hist = NoCall
    /\ cand = Rel(<<repo, nLnk>>)
    /\ result = NotCalled
    /\ pc = <<>>
    /\ sawExists = <<>>
    /\ overlaps = {}

\* the invocation r has run: its record replaces the last one, whose guard calls
\* are remembered, and the filesystem is the one r leaves
Ran(r) ==
    /\ inv' = [h |-> r.h, outcome |-> r.outcome, effects |-> r.effects,
               guards |-> r.guards, results |-> r.results,
               column |-> r.column, value |-> r.value]
    /\ hist' = Remember(hist, inv.guards, cand)
    /\ links' = r.fs.links
    /\ files' = r.fs.files
    /\ csv' = r.fs.csv
    /\ UNCHANGED <<loopRaises, cand, result, pc, sawExists, overlaps>>

Env == {"ok", "upstream", "oserror"}

B3 == \E env \in Env, filename \in FileArgs : \E r \in {B3Run(env, filename, FS)} : Ran(r)

B4 == \E env \in {"ok", "git", "oserror", "push"}, content \in RepoContents,
         file_to_change \in ChangeArgs :
            \E r \in {B4Run(env, content, file_to_change, FS)} : Ran(r)

B5 == \E env \in Env, db_path \in FileArgs, output_file \in FileArgs,
         use_duckdb \in BOOLEAN :
            \E r \in {B5Run(env, db_path, output_file, use_duckdb, FS)} : Ran(r)

B6 == \E env \in Env, output_file \in FileArgs : \E r \in {B6Run(env, output_file, FS)} : Ran(r)

B7 == \E env \in Env, image_path \in FileArgs, output_path \in FileArgs :
            \E r \in {B7Run(env, image_path, output_path, FS)} : Ran(r)

B8 == \E env \in {"ok", "decode", "speech", "oserror"},
         audio_path \in FileArgs, output_file \in FileArgs :
            \E r \in {B8Run(env, audio_path, output_file, FS)} : Ran(r)

B9 == \E env \in Env, markdown_file \in FileArgs, output_file \in FileArgs :
            \E r \in {B9Run(env, markdown_file, output_file, FS)} : Ran(r)

B10 == \E env \in {"ok", "oserror"}, csv_file \in CsvArgs,
          column \in Columns, value \in Values :
            \E r \in {B10Run(env, csv_file, column, value, FS)} : Ran(r)

Next == B3 \/ B4 \/ B5 \/ B6 \/ B7 \/ B8 \/ B9 \/ B10

Spec == Init /\ [][Next]_vars

(***************************************************************************)
(* Claims about the handlers, under Spec                                   *)
(***************************************************************************)
\* the paths the guard returned during the invocation
Authorized(i) ==
    {i.guards[k].out.path : k \in {j \in 1..Len(i.guards) : i.guards[j].out.kind = "path"}}

\* the paths the invocation read, wrote or handed to a collaborator
Used(i) == UNION {i.effects[k].paths : k \in 1..Len(i.effects)}

\* C4: in every handler all guard checks precede the first side effect: an
\* invocation that ends in AccessDenied has performed no network request, clone,
\* pull, connection, codec call or file open.
C4_GuardsBeforeEffects == inv.outcome = "AccessDenied" => inv.effects = <<>>

\* C5: every path a handler reads, writes or hands to a collaborator is a value
\* ensure_data_path returned during that invocation, derived paths included.
C5_OnlyAuthorizedPaths == Used(inv) \subseteq Authorized(inv)

\* the guard calls of the last invocation on the observed candidate
CallsOnCand == {k \in 1..Len(inv.guards) : inv.guards[k].cand = cand}

\* C9: two guard calls with the same candidate, whatever handlers ran in between,
\* produce the identical outcome.
C9_SameOutcome ==
    \A k \in CallsOnCand :
        /\ hist # NoCall => inv.guards[k].out = hist.out
        /\ \A m \in CallsOnCand : inv.guards[m].out = inv.guards[k].out

\* C9 as amended: two guard calls with the same candidate produce the identical
\* outcome when the symbolic links of the filesystem are the same at both calls.
C9_SameOutcomeSameLinks ==
    \A k \in CallsOnCand :
        /\ (hist # NoCall /\ hist.lk = inv.guards[k].lk)
              => inv.guards[k].out = hist.out
        /\ \A m \in CallsOnCand :
              inv.guards[m].lk = inv.guards[k].lk
                  => inv.guards[m].out = inv.guards[k].out

C9_Witness ==
    /\ hist # NoCall
    /\ hist.out.kind = "path"
    /\ \E k \in CallsOnCand :
          /\ inv.guards[k].lk = hist.lk
          /\ inv.guards[k].out = hist.out
          /\ inv.h = "B4"

(***************************************************************************)
(* SpecCsv: B10 on CSV files of every content                              *)
(***************************************************************************)
MaxRows == 3

Headers == {<<>>, <<"status">>, <<"id", "status">>, <<"status", "status">>}
Cells == {"ok", "no"}

\* the lines a file can have after the header h: each of up to one cell more than h
LinesAfter(h, n) == [1..n -> SeqsUpTo(Cells, Len(h) + 1)]

InitCsv ==
    /\ \/ /\ files = {DATA_DIR, CsvPath}
          /\ \/ csv = NoCsv
             \/ \E h \in Headers, n \in 0..MaxRows :
                   \E rows \in LinesAfter(h, n) : csv = <<h>> \o rows
       \/ files = {DATA_DIR} /\ csv = NoCsv
    /\ links = {}
    /\ loopRaises = TRUE
    /\ inv = NoInv
    /\ hist = NoCall
    /\ cand = Rel(<<tCsv>>)
    /\ result = NotCalled
    /\ pc = <<>>
    /\ sawExists = <<>>
    /\ overlaps = {}

FilterCsv ==
    /\ inv = NoInv
    /\ \E column \in Columns, value \in Values :
          \E r \in {B10Run("ok", cand, column, value, FS)} : Ran(r)

NextCsv == FilterCsv

SpecCsv == InitCsv /\ [][NextCsv]_vars

\* the data lines of the file: the lines after the header that are not blank
DataLines == IF csv = <<>> THEN <<>> ELSE SelectSeq(Tail(csv), IsRow)

\* the data line has the value in the named column (the last field of that name)
LineMatches(line, column, value) ==
    /\ \E j \in 1..Len(Head(csv)) : Head(csv)[j] = column
    /\ LastField(Head(csv), column) <= Len(line)
    /\ line[LastField(Head(csv), column)] = value

Matching(column, value) ==
    {i \in 1..Len(DataLines) : LineMatches(DataLines[i], column, value)}

\* the k-th smallest element of a set of numbers
Kth(M, k) == CHOOSE i \in M : Cardinality({j \in M : j <= i}) = k

\* C8: B10 on an existing authorized CSV file returns exactly the rows whose value
\* in the named column equals the given value, each once and in file order; a
\* column absent from the header yields no rows; a file that does not exist
\* yields NotFound (404) and nothing is read.
C8_FilterExact ==
    inv.h = "B10" =>
        /\ CsvPath \notin files => inv.outcome = "NotFound" /\ inv.effects = <<>>
        /\ CsvPath \in files =>
              LET M == Matching(inv.column, inv.value)
              IN  /\ inv.outcome = "ok"
                  /\ Len(inv.results) = Cardinality(M)
                  /\ \A k \in 1..Len(inv.results) :
                        inv.results[k] = RowDict(Head(csv), DataLines[Kth(M, k)])
                  /\ (csv # <<>> /\ \A j \in 1..Len(Head(csv)) : Head(csv)[j] # inv.column)
                        => inv.results = <<>>

C8_Witness ==
    /\ csv = SampleCsv
    /\ inv.h = "B10"
    /\ inv.column = "status"
    /\ inv.value = "ok"
    /\ inv.results = <<[id |-> "no", status |-> "ok"], [id |-> "ok", status |-> "ok"]>>

(***************************************************************************)
(* SpecB4: concurrent invocations of B4, one statement at a time           *)
(***************************************************************************)
NProcs == 2
Procs == 1..NProcs

RepoPath == <<data, repo>>

\* two invocations are between the start and the end of clone_from ("clone"), or
\* between their write and the end of their commit ("commit")
Overlap(pcs) ==
    (IF \E p \in Procs, q \in Procs : p # q /\ pcs[p] = "cloning" /\ pcs[q] = "cloning"
     THEN {"clone"} ELSE {})
    \cup
    (IF \E p \in Procs, q \in Procs :
            p # q /\ pcs[p] \in {"add", "commit"} /\ pcs[q] \in {"add", "commit"}
     THEN {"commit"} ELSE {})

\* the invocation p moves to the position to
Goto(p, to) ==
    /\ pc' = [pc EXCEPT ![p] = to]
    /\ overlaps' = overlaps \cup Overlap([pc EXCEPT ![p] = to])
    /\ UNCHANGED <<links, loopRaises, cand, result, inv, hist, csv>>

InitB4 ==
    /\ pc = [p \in Procs |-> "idle"]
    /\ sawExists = [p \in Procs |-> FALSE]
    /\ files \in {{DATA_DIR}, {DATA_DIR, RepoPath}}
    /\ overlaps = {}
    /\ links = {}
    /\ loopRaises = TRUE
    /\ inv = NoInv
    /\ hist = NoCall
    /\ cand = Rel(<<repo>>)
    /\ result = NotCalled
    /\ csv = NoCsv

\* line 38: repo_path = ensure_data_path("repo")
B4Enter(p) ==
    /\ pc[p] = "idle"
    /\ Goto(p, IF ensure_data_path(Rel(<<repo>>), FS).kind = "path"
               THEN "exists" ELSE "raised")
    /\ UNCHANGED <<files, sawExists>>

\* B4Exists behind a lock on the working tree: no other invocation is inside
B4ExistsLocked(p) ==
    /\ pc[p] = "exists"
    /\ \A q \in Procs \ {p} : pc[q] \in {"idle", "exists", "done", "raised"}
    /\ sawExists' = [sawExists EXCEPT ![p] = RepoPath \in files]
    /\ Goto(p, IF RepoPath \in files THEN "pull" ELSE "clone")
    /\ UNCHANGED files

\* line 39: if repo_path.exists()
B4Exists(p) ==
    /\ pc[p] = "exists"
    /\ sawExists' = [sawExists EXCEPT ![p] = RepoPath \in files]
    /\ Goto(p, IF RepoPath \in files THEN "pull" ELSE "clone")
    /\ UNCHANGED files

\* lines 40-41: Repo(repo_path), pull(); git succeeds or raises
B4Pull(p) ==
    /\ pc[p] = "pull"
    /\ \E ok \in BOOLEAN : Goto(p, IF ok THEN "guard_file" ELSE "raised")
    /\ UNCHANGED <<files, sawExists>>

\* line 43: Repo.clone_from starts
B4CloneBegin(p) ==
    /\ pc[p] = "clone"
    /\ Goto(p, "cloning")
    /\ UNCHANGED <<files, sawExists>>

\* line 43: Repo.clone_from ends: the working tree is there, or git raises
B4CloneEnd(p) ==
    /\ pc[p] = "cloning"
    /\ \E ok \in BOOLEAN :
          /\ Goto(p, IF ok THEN "guard_file" ELSE "raised")
          /\ files' = IF ok THEN files \cup {RepoPath} ELSE files
    /\ UNCHANGED sawExists

\* line 44: file_path = ensure_data_path(f"repo/{file_to_change}")
B4GuardFile(p) ==
    /\ pc[p] = "guard_file"
    /\ \E file_to_change \in ChangeArgs \cup {Rel(<<DotDot, DotDot, etc>>)} :
          Goto(p, IF ensure_data_path(RepoFile(file_to_change), FS).kind = "path"
                  THEN "write" ELSE "raised")
    /\ UNCHANGED <<files, sawExists>>

\* lines 45-46: open(file_path, "w"), write
B4Write(p) ==
    /\ pc[p] = "write"
    /\ Goto(p, "add")
    /\ UNCHANGED <<files, sawExists>>

\* lines 47-48: Repo(repo_path), repo.git.add(file_path)
B4Add(p) ==
    /\ pc[p] = "add"
    /\ Goto(p, "commit")
    /\ UNCHANGED <<files, sawExists>>

\* line 49: repo.index.commit(commit_message)
B4Commit(p) ==
    /\ pc[p] = "commit"
    /\ Goto(p, "push")
    /\ UNCHANGED <<files, sawExists>>

\* lines 50-53: push(); a GitCommandError becomes HTTP 500
B4Push(p) ==
    /\ pc[p] = "push"
    /\ \E ok \in BOOLEAN : Goto(p, IF ok THEN "done" ELSE "raised")
    /\ UNCHANGED <<files, sawExists>>

\* the invocation has returned or raised; the next request may come
B4Return(p) ==
    /\ pc[p] \in {"done", "raised"}
    /\ Goto(p, "idle")
    /\ UNCHANGED <<files, sawExists>>

B4Step(p) ==
    \/ B4Enter(p)
    \/ B4Exists(p)
    \/ B4Pull(p)
    \/ B4CloneBegin(p)
    \/ B4CloneEnd(p)
    \/ B4GuardFile(p)
    \/ B4Write(p)
    \/ B4Add(p)
    \/ B4Commit(p)
    \/ B4Push(p)
    \/ B4Return(p)

NextB4 == \E p \in Procs : B4Step(p)

SpecB4 == InitB4 /\ [][NextB4]_vars

\* C10: B4 gives no mutual exclusion on the working tree /data/repo: wherever the
\* other invocations are, the next statement of every invocation can run; so two
\* invocations that both saw the repository absent both clone, and two
\* invocations write, stage and commit in the working tree at the same time.
C10_NoMutualExclusion ==
    \A p \in Procs :
        /\ pc[p] = "exists" => ENABLED B4Exists(p)
        /\ pc[p] = "clone" => ENABLED B4CloneBegin(p)
        /\ pc[p] = "write" => ENABLED B4Write(p)
        /\ pc[p] = "add" => ENABLED B4Add(p)
        /\ pc[p] = "commit" => ENABLED B4Commit(p)

\* both races have happened: two clones at once after both saw the repository
\* absent, and two invocations between write and commit at once
C10_Witness ==
    /\ overlaps = {"clone", "commit"}
    /\ \E p \in Procs, q \in Procs :
          p # q /\ pc[p] \in {"add", "commit"} /\ pc[q] \in {"add", "commit"}

====
